---- MODULE Spec2Model ----
(***************************************************************************)
(* dlt/config/optim.py: the four factory functions optimizer, scheduler,   *)
(* epoch_checkpointer and lr_checkpointer, the closure schedule_step that  *)
(* scheduler returns, and the caller-owned objects they act on (the model, *)
(* the optimizer's param_groups, the checkpoint store).                    *)
(*                                                                         *)
(* Learning rates, metrics, epochs and hyperparameters are small naturals  *)
(* (abstract units).  A Python value that may be None is a sequence of     *)
(* length at most one: <<>> is None and <<v>> is v.  subset is None in     *)
(* every call, so the printed messages carry no name suffix.               *)
(***************************************************************************)
EXTENDS Integers, Sequences, FiniteSets, TLC

VARIABLES
    model,            \* model.parameters(): the requires_grad flag of each parameter
    param_groups,     \* optimizer.param_groups: the 'lr' of each group; <<>> = no optimizer yet
    sched,            \* what the closure returned by scheduler() closes over
    store,            \* the checkpoint directory: label -> last saved value
    experiment_name,  \* opts.experiment_name
    ret,              \* the last call: its name, the opts it fetched, what it raised/returned, the library calls it made
    out               \* what the last call printed

vars == <<model, param_groups, sched, store, experiment_name, ret, out>>

(*************************** bounds of the model ***************************)
NParams == 2
MaxGroups == 2
MaxLr == 2
MaxMetric == 2
MaxEpoch == 2
MaxStepSize == 2
MaxPatience == 1

Lrs == 1..MaxLr
SavedLrs == 0..MaxLr
SavedEpochs == 0..MaxEpoch
Metrics == 1..MaxMetric
ExperimentNames == {"exp", "lr_exp"}

None == <<>>
Some(v) == <<v>>

(***************************** configuration ******************************)
\* parse.optimizers: the names the validation accepts
parse_optimizers ==
    {"adam", "sgd", "adadelta", "adagrad", "sparseadam", "adamax", "rmsprop"}

OptimizerNames == parse_optimizers \cup {"lbfgs"}

\* two settings of the hyperparameter knobs, all values distinct within a setting
HyperSettings ==
    { [beta1 |-> 1, beta2 |-> 2, weight_decay |-> 3, momentum |-> 4, dampening |-> 5,
       rho |-> 6, optim_eps |-> 7, lr_decay |-> 8, alpha |-> 9, centered |-> FALSE],
      [beta1 |-> 12, beta2 |-> 11, weight_decay |-> 19, momentum |-> 18, dampening |-> 17,
       rho |-> 16, optim_eps |-> 15, lr_decay |-> 14, alpha |-> 13, centered |-> TRUE] }

\* fetch_opts(categories=['optimizer']): every configuration it may return
OptimizerOpts ==
    { [optimizer |-> n, lr |-> l, beta1 |-> h.beta1, beta2 |-> h.beta2,
       weight_decay |-> h.weight_decay, momentum |-> h.momentum,
       dampening |-> h.dampening, rho |-> h.rho, optim_eps |-> h.optim_eps,
       lr_decay |-> h.lr_decay, alpha |-> h.alpha, centered |-> h.centered] :
      n \in OptimizerNames, l \in Lrs, h \in HyperSettings }

LrSchedules == {"plateau", "step", "none", "cosine"}

\* opts.lr_ratio in halves: 1 is 0.5
LrRatios == {1}

\* opts.lr_cooldown: no cooldown after a reduction
LrCooldowns == {0}

\* opts.lr_min
LrMins == {0, 1}

\* fetch_opts(categories=['scheduler']): every configuration it may return; a knob the
\* selected schedule never reads is left at one value
SchedulerOpts ==
    { [lr_schedule |-> "plateau", lr_step_size |-> 1, lr_patience |-> p,
       lr_cooldown |-> c, lr_ratio |-> r, lr_min |-> m] :
      p \in 0..MaxPatience, c \in LrCooldowns, r \in LrRatios, m \in LrMins }
    \cup
    { [lr_schedule |-> "step", lr_step_size |-> z, lr_patience |-> 0,
       lr_cooldown |-> 0, lr_ratio |-> r, lr_min |-> 0] :
      z \in 1..MaxStepSize, r \in LrRatios }
    \cup
    { [lr_schedule |-> s, lr_step_size |-> 1, lr_patience |-> 0,
       lr_cooldown |-> 0, lr_ratio |-> 1, lr_min |-> 0] :
      s \in LrSchedules \ {"plateau", "step"} }

\* fetch_opts(categories=['general'])
GeneralOpts == [experiment_name |-> experiment_name]

\* fetch_opts(categories=['general', 'optimizer']): the fields lr_checkpointer reads
GeneralOptimizerOpts == { [experiment_name |-> experiment_name, lr |-> l] : l \in Lrs }

Ret(call, opts, exc, value, lib) ==
    [call |-> call, opts |-> opts, exc |-> exc, value |-> value, lib |-> lib]

Init ==
    /\ model = [i \in 1..NParams |-> TRUE]
    /\ param_groups = <<>>
    /\ sched = [kind |-> "unset"]
    /\ store = <<>>
    /\ experiment_name \in ExperimentNames
    /\ ret = Ret("start", None, "none", None, <<>>)
    /\ out = <<>>

(****************************** optimizer() *******************************)
\* a mutant of GradParams: every parameter of the model
GradParams_All(m) == [i \in 1..Len(m) |-> i]

\* filter(lambda p: p.requires_grad, model.parameters()): the parameters kept, in
\* model order

GradParams(m) ==
    LET requires_grad(i) == m[i]
    IN  SelectSeq([i \in 1..Len(m) |-> i], requires_grad)

\* a constructor call of the optimizer library
Ctor(fn, params, kwargs) == [fn |-> fn, params |-> params, kwargs |-> kwargs]

AdamCall(opts, grad_params) ==
    Ctor("torch.optim.Adam", grad_params,
         [lr |-> opts.lr, betas |-> <<opts.beta1, opts.beta2>>,
          weight_decay |-> opts.weight_decay])

SGDCall(opts, grad_params) ==
    Ctor("torch.optim.SGD", grad_params,
         [lr |-> opts.lr, momentum |-> opts.momentum, dampening |-> opts.dampening,
          weight_decay |-> opts.weight_decay])

AdadeltaCall(opts, grad_params) ==
    Ctor("torch.optim.Adadelta", grad_params,
         [lr |-> opts.lr, rho |-> opts.rho, eps |-> opts.optim_eps,
          weight_decay |-> opts.weight_decay])

AdagradCall(opts, grad_params) ==
    Ctor("torch.optim.Adagrad", grad_params,
         [lr |-> opts.lr, lr_decay |-> opts.lr_decay, weight_decay |-> opts.weight_decay])

\* a mutant of SparseAdamCall: weight_decay is passed as it is to the other variants
SparseAdamCall_WeightDecay(opts, grad_params) ==
    Ctor("torch.optim.SparseAdam", grad_params,
         [lr |-> opts.lr, betas |-> <<opts.beta1, opts.beta2>>, eps |-> opts.optim_eps,
          weight_decay |-> opts.weight_decay])

SparseAdamCall(opts, grad_params) ==
    Ctor("torch.optim.SparseAdam", grad_params,
         [lr |-> opts.lr, betas |-> <<opts.beta1, opts.beta2>>, eps |-> opts.optim_eps])

AdamaxCall(opts, grad_params) ==
    Ctor("torch.optim.Adamax", grad_params,
         [lr |-> opts.lr, betas |-> <<opts.beta1, opts.beta2>>, eps |-> opts.optim_eps,
          weight_decay |-> opts.weight_decay])

RMSpropCall(opts, grad_params) ==
    Ctor("torch.optim.RMSprop", grad_params,
         [lr |-> opts.lr, alpha |-> opts.alpha, eps |-> opts.optim_eps,
          weight_decay |-> opts.weight_decay, momentum |-> opts.momentum,
          centered |-> opts.centered])

\* the if/elif chain on opts.optimizer: the constructor calls it makes (none when no
\* branch is taken and ret_optimizer stays unbound)
Construct(opts, grad_params) ==
    CASE opts.optimizer = "adam" -> <<AdamCall(opts, grad_params)>>
      [] opts.optimizer = "sgd" -> <<SGDCall(opts, grad_params)>>
      [] opts.optimizer = "adadelta" -> <<AdadeltaCall(opts, grad_params)>>
      [] opts.optimizer = "adagrad" -> <<AdagradCall(opts, grad_params)>>
      [] opts.optimizer = "sparseadam" -> <<SparseAdamCall(opts, grad_params)>>
      [] opts.optimizer = "adamax" -> <<AdamaxCall(opts, grad_params)>>
      [] opts.optimizer = "rmsprop" -> <<RMSpropCall(opts, grad_params)>>
      [] OTHER -> <<>>

\* the library's constructor: it refuses an empty parameter list, else the object it
\* builds holds the call's parameters and keyword arguments
LibraryRaises(ctor) == IF ctor.params = <<>> THEN "torch:ValueError" ELSE "none"

\* a mutant of OptimizerResult: no validation of the name
OptimizerResult_NoValidation(opts, m) ==
    LET lib == Construct(opts, GradParams(m))
    IN  IF lib = <<>>
        THEN Ret("optimizer", opts, "UnboundLocalError", None, lib)
        ELSE IF LibraryRaises(lib[1]) # "none"
        THEN Ret("optimizer", opts, LibraryRaises(lib[1]), None, lib)
        ELSE Ret("optimizer", opts, "none", Some(lib[1]), lib)

\* optimizer(model): the call's outcome for the opts fetched and the model given
OptimizerResult(opts, m) ==
    IF opts.optimizer \notin parse_optimizers
    THEN Ret("optimizer", opts, "ValueError", None, <<>>)
    ELSE LET lib == Construct(opts, GradParams(m))
         IN  IF lib = <<>>
             THEN Ret("optimizer", opts, "UnboundLocalError", None, lib)
             ELSE IF LibraryRaises(lib[1]) # "none"
             THEN Ret("optimizer", opts, LibraryRaises(lib[1]), None, lib)
             ELSE Ret("optimizer", opts, "none", Some(lib[1]), lib)

\* A run calls optimizer() for the optimizer it trains with, and keeps the one
\* returned: one parameter group with the lr given.
Optimizer ==
    \E o \in OptimizerOpts :
        LET r == OptimizerResult(o, model)
        IN  /\ param_groups = <<>>
            /\ ret' = r
            /\ param_groups' = IF r.exc = "none" THEN <<r.value[1].kwargs.lr>>
                               ELSE param_groups
            /\ sched' = IF r.exc = "none" THEN [kind |-> "unset"] ELSE sched
            /\ out' = <<>>
            /\ UNCHANGED <<model, store, experiment_name>>

\* the caller freezes or unfreezes a parameter of its model
SetRequiresGrad ==
    \E i \in 1..NParams, b \in BOOLEAN :
        /\ model' = [model EXCEPT ![i] = b]
        /\ ret' = Ret("requires_grad_", None, "none", None, <<>>)
        /\ out' = <<>>
        /\ UNCHANGED <<param_groups, sched, store, experiment_name>>

\* the caller adds a parameter group to its optimizer, before it makes a scheduler
AddParamGroup ==
    \E l \in Lrs :
        /\ param_groups # <<>>
        /\ Len(param_groups) < MaxGroups
        /\ sched.kind = "unset"
        /\ param_groups' = Append(param_groups, l)
        /\ ret' = Ret("add_param_group", None, "none", None, <<>>)
        /\ out' = <<>>
        /\ UNCHANGED <<model, sched, store, experiment_name>>

(****************************** scheduler() *******************************)
Max(a, b) == IF a >= b THEN a ELSE b

\* lr * ratio, the ratio counted in halves
Scaled(lr, ratio) == (lr * ratio) \div 2

\* the scheduler object and schedule_fn that scheduler() binds for the opts fetched;
\* no branch binds schedule_fn for a value other than plateau, step and none
MakeSchedule(opts) ==
    CASE opts.lr_schedule = "plateau" ->
           [kind |-> "plateau", factor |-> opts.lr_ratio, patience |-> opts.lr_patience,
            cooldown |-> opts.lr_cooldown, min_lr |-> opts.lr_min,
            best |-> None, num_bad_epochs |-> 0, cooldown_counter |-> 0]
      [] opts.lr_schedule = "step" ->
           [kind |-> "step", step_size |-> opts.lr_step_size, gamma |-> opts.lr_ratio,
            last_epoch |-> 0]
      [] opts.lr_schedule = "none" -> [kind |-> "none"]
      [] OTHER -> [kind |-> "unbound"]

\* the library calls scheduler() makes
ScheduleCtor(opts) ==
    CASE opts.lr_schedule = "plateau" ->
           <<[fn |-> "ReduceLROnPlateau",
              kwargs |-> [mode |-> "min", factor |-> opts.lr_ratio,
                          patience |-> opts.lr_patience, threshold_mode |-> "rel",
                          cooldown |-> opts.lr_cooldown, min_lr |-> opts.lr_min]]>>
      [] opts.lr_schedule = "step" ->
           <<[fn |-> "StepLR",
              kwargs |-> [step_size |-> opts.lr_step_size, gamma |-> opts.lr_ratio]]>>
      [] OTHER -> <<>>

Scheduler ==
    \E o \in SchedulerOpts :
        /\ param_groups # <<>>
        /\ sched' = MakeSchedule(o)
        /\ ret' = Ret("scheduler", [lr_schedule |-> o.lr_schedule], "none",
                      [closure |-> "schedule_step", schedule_fn |-> MakeSchedule(o).kind],
                      ScheduleCtor(o))
        /\ out' = <<>>
        /\ UNCHANGED <<model, param_groups, store, experiment_name>>

\* ReduceLROnPlateau.step(metric), mode 'min': the lr of every group is cut to
\* max(lr * factor, min_lr) once the metric has not improved for more than patience calls
PlateauStep(s, groups, metric) ==
    LET better == s.best = None \/ metric < s.best[1]
        bad1 == IF better THEN 0 ELSE s.num_bad_epochs + 1
        cooling == s.cooldown_counter > 0
        counter1 == IF cooling THEN s.cooldown_counter - 1 ELSE s.cooldown_counter
        bad2 == IF cooling THEN 0 ELSE bad1
        reduce == bad2 > s.patience
        reduced(lr) == IF lr - Max(Scaled(lr, s.factor), s.min_lr) > 0
                       THEN Max(Scaled(lr, s.factor), s.min_lr) ELSE lr
    IN  [sched |-> [s EXCEPT !.best = IF better THEN Some(metric) ELSE s.best,
                             !.num_bad_epochs = IF reduce THEN 0 ELSE bad2,
                             !.cooldown_counter = IF reduce THEN s.cooldown ELSE counter1],
         groups |-> IF reduce THEN [i \in DOMAIN groups |-> reduced(groups[i])]
                    ELSE groups]

\* StepLR.step(): every step_size-th call multiplies the lr of every group by gamma
StepLRStep(s, groups) ==
    LET epoch == (s.last_epoch + 1) % s.step_size
    IN  [sched |-> [s EXCEPT !.last_epoch = epoch],
         groups |-> IF epoch = 0 THEN [i \in DOMAIN groups |-> Scaled(groups[i], s.gamma)]
                    ELSE groups]

\* a mutant of ScheduleFn: 'step' is driven as 'plateau' is, 'none' decays
ScheduleFn_Swapped(s, groups, metric) ==
    CASE s.kind = "plateau" ->
           [sched |-> PlateauStep(s, groups, metric).sched,
            groups |-> PlateauStep(s, groups, metric).groups,
            lib |-> <<[fn |-> "ReduceLROnPlateau.step", args |-> <<metric>>]>>]
      [] s.kind = "step" ->
           [sched |-> StepLRStep(s, groups).sched,
            groups |-> StepLRStep(s, groups).groups,
            lib |-> <<[fn |-> "StepLR.step", args |-> <<metric>>]>>]
      [] OTHER ->
           [sched |-> s, groups |-> [i \in DOMAIN groups |-> Scaled(groups[i], 1)],
            lib |-> <<>>]

\* schedule_fn(metric), as bound by scheduler(): what it does to the scheduler and the
\* optimizer, and the library calls it makes
ScheduleFn(s, groups, metric) ==
    CASE s.kind = "plateau" ->
           [sched |-> PlateauStep(s, groups, metric).sched,
            groups |-> PlateauStep(s, groups, metric).groups,
            lib |-> <<[fn |-> "ReduceLROnPlateau.step", args |-> <<metric>>]>>]
      [] s.kind = "step" ->
           [sched |-> StepLRStep(s, groups).sched,
            groups |-> StepLRStep(s, groups).groups,
            lib |-> <<[fn |-> "StepLR.step", args |-> <<>>]>>]
      [] OTHER -> [sched |-> s, groups |-> groups, lib |-> <<>>]

\* the message schedule_step prints: current_lr and new_lr are param_groups[0]['lr']
\* before and after schedule_fn
Report(current_lr, new_lr) ==
    IF new_lr # current_lr
    THEN <<[msg |-> "Learning rate changed", from |-> current_lr, to |-> new_lr]>>
    ELSE <<>>

\* schedule_step(metric), the closure scheduler() returned
ScheduleStep ==
    \E metric \in Metrics :
        /\ sched.kind # "unset"
        /\ IF sched.kind = "unbound"
           THEN /\ ret' = Ret("schedule_step", [metric |-> metric], "NameError", None, <<>>)
                /\ out' = <<>>
                /\ UNCHANGED <<param_groups, sched>>
           ELSE LET current_lr == param_groups[1]
                    r == ScheduleFn(sched, param_groups, metric)
                    new_lr == r.groups[1]
                IN  /\ param_groups' = r.groups
                    /\ sched' = r.sched
                    /\ out' = Report(current_lr, new_lr)
                    /\ ret' = Ret("schedule_step", [metric |-> metric], "none", None, r.lib)
        /\ UNCHANGED <<model, store, experiment_name>>

(***************************** checkpointers ******************************)
\* the labels of the two checkpointers
EpochLabel(name) == "epoch_" \o name

\* a mutant of LrLabel: the epoch checkpointer's prefix
LrLabel_Epoch(name) == "epoch_" \o name

LrLabel(name) == "lr_" \o name

\* Checkpointer(label, ...): the object made for a label
Checkpointer(label) == [label |-> label]

\* chkp.load(): the value last saved under the label, None when there is none
Load(chkp) == IF chkp.label \in DOMAIN store THEN Some(store[chkp.label]) ELSE None

\* the store after chkp.save(v): overwrite is set, the label's value is replaced
Saved(chkp, v) ==
    [l \in DOMAIN store \cup {chkp.label} |-> IF l = chkp.label THEN v ELSE store[l]]

\* Python's  x or d  for a loaded value: d when x is None or 0
PyOr(x, d) == IF x = None \/ x = Some(0) THEN d ELSE x[1]

\* the epoch a fresh experiment starts at
FirstEpoch == 1

EpochCheckpointer ==
    LET epoch_chkp == Checkpointer(EpochLabel(GeneralOpts.experiment_name))
        current_epoch == PyOr(Load(epoch_chkp), FirstEpoch)
    IN  /\ ret' = Ret("epoch_checkpointer", GeneralOpts, "none",
                      [chkp |-> epoch_chkp, current_epoch |-> current_epoch], <<>>)
        /\ out' = <<>>
        /\ UNCHANGED <<model, param_groups, sched, store, experiment_name>>

LrCheckpointer ==
    \E o \in GeneralOptimizerOpts :
        LET lr_chkp == Checkpointer(LrLabel(o.experiment_name))
            lr == PyOr(Load(lr_chkp), o.lr)
        IN  /\ param_groups # <<>>
            /\ param_groups' = [param_groups EXCEPT ![1] = lr]
            /\ out' = <<[msg |-> "Learning rate initialized", to |-> lr]>>
            /\ ret' = Ret("lr_checkpointer", o, "none", [chkp |-> lr_chkp], <<>>)
            /\ UNCHANGED <<model, sched, store, experiment_name>>

\* the caller saves an epoch number with the checkpointer epoch_checkpointer() returns
SaveEpoch ==
    \E e \in SavedEpochs :
        /\ store' = Saved(Checkpointer(EpochLabel(experiment_name)), e)
        /\ ret' = Ret("epoch_chkp.save", None, "none", None, <<>>)
        /\ out' = <<>>
        /\ UNCHANGED <<model, param_groups, sched, experiment_name>>

\* the caller saves a learning rate with the checkpointer lr_checkpointer() returns
SaveLr ==
    \E l \in SavedLrs :
        /\ store' = Saved(Checkpointer(LrLabel(experiment_name)), l)
        /\ ret' = Ret("lr_chkp.save", None, "none", None, <<>>)
        /\ out' = <<>>
        /\ UNCHANGED <<model, param_groups, sched, experiment_name>>

\* the process ends and a new run starts: the optimizer and the closure are gone, the
\* checkpoint store stays
NewRun ==
    /\ param_groups # <<>>
    /\ param_groups' = <<>>
    /\ sched' = [kind |-> "unset"]
    /\ ret' = Ret("start", None, "none", None, <<>>)
    /\ out' = <<>>
    /\ UNCHANGED <<model, store, experiment_name>>

(***************************** specifications *****************************)
\* optimizer() alone, over every setting of the model's requires_grad flags
NextOptimizer ==
    \/ Optimizer
    \/ SetRequiresGrad
    \/ NewRun

SpecOptimizer == Init /\ [][NextOptimizer]_vars

\* the optimizer and its schedule: nothing is ever saved, so lr_checkpointer sets the
\* configured lr
NextScheduler ==
    \/ Optimizer
    \/ NewRun
    \/ AddParamGroup
    \/ Scheduler
    \/ ScheduleStep
    \/ LrCheckpointer

SpecScheduler == Init /\ [][NextScheduler]_vars

\* the optimizer and the two checkpointers, over runs that share the store
NextCheckpoint ==
    \/ Optimizer
    \/ NewRun
    \/ AddParamGroup
    \/ EpochCheckpointer
    \/ LrCheckpointer
    \/ SaveEpoch
    \/ SaveLr

SpecCheckpoint == Init /\ [][NextCheckpoint]_vars

\* a training script: the model as built, every parameter trainable
Next ==
    \/ Optimizer
    \/ NewRun
    \/ AddParamGroup
    \/ Scheduler
    \/ ScheduleStep
    \/ EpochCheckpointer
    \/ LrCheckpointer
    \/ SaveEpoch
    \/ SaveLr

Spec == Init /\ [][Next]_vars

(********************************* claims *********************************)
\* C1: optimizer() with a configured name outside parse.optimizers raises the value
\* error before any constructor is called: nothing is returned, and the model and the
\* caller's optimizer are as they were.
C1_UnknownOptimizerRaises ==
    [][(ret'.call = "optimizer" /\ ret'.opts.optimizer \notin parse_optimizers)
       => /\ ret'.exc = "ValueError"
          /\ ret'.lib = <<>>
          /\ ret'.value = None
          /\ model' = model
          /\ param_groups' = param_groups]_vars

C1_Witness ==
    /\ ret.call = "optimizer"
    /\ ret.opts.optimizer = "lbfgs"
    /\ ret.exc = "ValueError"
    /\ \E i \in DOMAIN model : ~model[i]

\* C2: the only failure the module produces itself is the value error for an unknown
\* optimizer name; every other failure of a call is one of an external collaborator.
C2_OnlyTheValueError ==
    \/ ret.exc = "none"
    \/ ret.exc = "torch:ValueError"
    \/ /\ ret.exc = "ValueError"
       /\ ret.call = "optimizer"
       /\ ret.opts.optimizer \notin parse_optimizers

\* the keyword arguments each variant is to be built with
C3_Variant(opts) ==
    CASE opts.optimizer = "adam" ->
           [fn |-> "torch.optim.Adam",
            kwargs |-> [lr |-> opts.lr, betas |-> <<opts.beta1, opts.beta2>>,
                        weight_decay |-> opts.weight_decay]]
      [] opts.optimizer = "sgd" ->
           [fn |-> "torch.optim.SGD",
            kwargs |-> [lr |-> opts.lr, momentum |-> opts.momentum,
                        dampening |-> opts.dampening, weight_decay |-> opts.weight_decay]]
      [] opts.optimizer = "adadelta" ->
           [fn |-> "torch.optim.Adadelta",
            kwargs |-> [lr |-> opts.lr, rho |-> opts.rho, eps |-> opts.optim_eps,
                        weight_decay |-> opts.weight_decay]]
      [] opts.optimizer = "adagrad" ->
           [fn |-> "torch.optim.Adagrad",
            kwargs |-> [lr |-> opts.lr, lr_decay |-> opts.lr_decay,
                        weight_decay |-> opts.weight_decay]]
      [] opts.optimizer = "sparseadam" ->
           [fn |-> "torch.optim.SparseAdam",
            kwargs |-> [lr |-> opts.lr, betas |-> <<opts.beta1, opts.beta2>>,
                        eps |-> opts.optim_eps]]
      [] opts.optimizer = "adamax" ->
           [fn |-> "torch.optim.Adamax",
            kwargs |-> [lr |-> opts.lr, betas |-> <<opts.beta1, opts.beta2>>,
                        eps |-> opts.optim_eps, weight_decay |-> opts.weight_decay]]
      [] opts.optimizer = "rmsprop" ->
           [fn |-> "torch.optim.RMSprop",
            kwargs |-> [lr |-> opts.lr, alpha |-> opts.alpha, eps |-> opts.optim_eps,
                        weight_decay |-> opts.weight_decay, momentum |-> opts.momentum,
                        centered |-> opts.centered]]

\* C3: for each of the seven selectors, optimizer() calls exactly one constructor, the
\* selector's, with the configured lr and that variant's hyperparameters as configured,
\* and returns what it built (unless the library refuses the call).
C3_SelectorBuildsItsVariant ==
    (/\ ret.call = "optimizer"
     /\ ret.opts.optimizer \in
            {"adam", "sgd", "adadelta", "adagrad", "sparseadam", "adamax", "rmsprop"})
    => /\ Len(ret.lib) = 1
       /\ ret.lib[1].fn = C3_Variant(ret.opts).fn
       /\ ret.lib[1].kwargs = C3_Variant(ret.opts).kwargs
       /\ ret.exc \in {"none", "torch:ValueError"}
       /\ ret.exc = "none" => ret.value = Some(ret.lib[1])

C3_Witness ==
    /\ ret.call = "optimizer"
    /\ ret.exc = "none"
    /\ ret.opts.optimizer = "sparseadam"
    /\ ret.value[1].fn = "torch.optim.SparseAdam"
    /\ ret.opts.centered

\* C4: scheduler() returns the closure for plateau, step and none, and a call of the
\* closure drives the selected policy once: plateau's step is given the metric, step's
\* step is given nothing, none calls nothing and leaves every learning rate as it was.
C4_ClosureDrivesThePolicy ==
    [][/\ (ret'.call = "scheduler" /\ ret'.opts.lr_schedule \in {"plateau", "step", "none"})
          => /\ ret'.exc = "none"
             /\ ret'.value.closure = "schedule_step"
             /\ sched'.kind = ret'.opts.lr_schedule
       /\ (ret'.call = "schedule_step" /\ sched.kind = "plateau")
          => /\ ret'.exc = "none"
             /\ ret'.lib = <<[fn |-> "ReduceLROnPlateau.step",
                              args |-> <<ret'.opts.metric>>]>>
       /\ (ret'.call = "schedule_step" /\ sched.kind = "step")
          => /\ ret'.exc = "none"
             /\ ret'.lib = <<[fn |-> "StepLR.step", args |-> <<>>]>>
       /\ (ret'.call = "schedule_step" /\ sched.kind = "none")
          => /\ ret'.exc = "none"
             /\ ret'.lib = <<>>
             /\ param_groups' = param_groups
             /\ out' = <<>>]_vars

C4_Witness ==
    /\ ret.call = "schedule_step"
    /\ sched.kind = "plateau"
    /\ ret.lib = <<[fn |-> "ReduceLROnPlateau.step", args |-> <<MaxMetric>>]>>
    /\ out # <<>>

\* C5: after lr_checkpointer() the optimizer's learning rate is the value last saved
\* under the lr label, whatever it is, and the configured lr only when none was saved;
\* the checkpointer returned is the one for that label.
C5_LrRestored ==
    ret.call = "lr_checkpointer"
    => /\ ret.value.chkp = Checkpointer(LrLabel(experiment_name))
       /\ param_groups[1] = IF LrLabel(experiment_name) \in DOMAIN store
                            THEN store[LrLabel(experiment_name)]
                            ELSE ret.opts.lr

\* C6: epoch_checkpointer() returns the epoch last saved under the epoch label, for
\* every saved value, and 1 when none was ever saved.
C6_EpochRestored ==
    ret.call = "epoch_checkpointer"
    => /\ ret.value.chkp = Checkpointer(EpochLabel(experiment_name))
       /\ ret.value.current_epoch = IF EpochLabel(experiment_name) \in DOMAIN store
                                    THEN store[EpochLabel(experiment_name)]
                                    ELSE 1

\* C7: after lr_checkpointer() every parameter group of the optimizer has the
\* restored learning rate.
C7_EveryGroupRestored ==
    ret.call = "lr_checkpointer"
    => \A i \in DOMAIN param_groups : param_groups[i] = out[1].to

\* C8: a call of the closure prints the change message exactly when the call changed
\* a learning rate of the optimizer, in any parameter group, and the message gives the
\* learning rate before and after the call.
C8_MessageIffChanged ==
    [][(ret'.call = "schedule_step" /\ ret'.exc = "none")
       => /\ (out' # <<>>) <=> (param_groups' # param_groups)
          /\ out' # <<>> => /\ out'[1].from = param_groups[1]
                            /\ out'[1].to = param_groups'[1]]_vars

\* C9: the constructor optimizer() calls is given exactly the parameters whose
\* requires_grad is true at the call, each once and in model order.
C9_OnlyGradParams ==
    (ret.call = "optimizer" /\ ret.lib # <<>>)
    => LET params == ret.lib[1].params
       IN  /\ \A i \in DOMAIN model : model[i] <=> (\E k \in DOMAIN params : params[k] = i)
           /\ \A k \in DOMAIN params : params[k] \in DOMAIN model
           /\ \A j, k \in DOMAIN params : j < k => params[j] < params[k]
           /\ ret.exc = "none" => ret.value[1].params = params

C9_Witness ==
    /\ ret.call = "optimizer"
    /\ ret.exc = "none"
    /\ ~model[1]
    /\ model[NParams]
    /\ ret.value[1].params # <<>>

\* what each restorer loads from the store
LoadedEpoch == Load(Checkpointer(EpochLabel(experiment_name)))

LoadedLr == Load(Checkpointer(LrLabel(experiment_name)))

\* C10: the epoch label and the lr label differ for every experiment name, a save on
\* one checkpointer never changes what the other loads, and epoch_checkpointer() and
\* lr_checkpointer() never write the store (lr_checkpointer writes only the learning
\* rate of the optimizer).
C10_RestorersIndependent ==
    [][/\ \A n1, n2 \in ExperimentNames : EpochLabel(n1) # LrLabel(n2)
       /\ ret'.call = "epoch_chkp.save" => LoadedLr' = LoadedLr
       /\ ret'.call = "lr_chkp.save" => LoadedEpoch' = LoadedEpoch
       /\ ret'.call = "epoch_checkpointer" => UNCHANGED <<store, param_groups, sched, model>>
       /\ ret'.call = "lr_checkpointer" => UNCHANGED <<store, sched, model>>]_vars

C10_Witness ==
    /\ ret.call = "lr_chkp.save"
    /\ LoadedLr = Some(0)
    /\ LoadedEpoch = Some(MaxEpoch)
====
